---- MODULE Spec2Model ----
(***************************************************************************)
(* Model of scripts/benchmark_comparison.py: the PlannerBenchmark class    *)
(* (run_hsp_planner, run_mcts_planner, extract_plan_length, save_results,  *)
(* generate_plots) and main.                                               *)
(*                                                                         *)
(* Text is a sequence of tokens.  A token is either one character          *)
(* (a digit, a blank, a newline, a parenthesis, some other character) or   *)
(* one of the literal phrases of the four regular expressions, so that a   *)
(* regular expression is matched on tokens exactly as re.search matches it *)
(* on the characters of the concatenated text.                             *)
(***************************************************************************)
EXTENDS Integers, Sequences, FiniteSets, TLC

VARIABLES
  pc,           \* position of the caller / of main
  pddl4j_path,  \* self.pddl4j_path
  timeout,      \* self.timeout
  results,      \* self.results
  output,       \* argument of extract_plan_length
  ret,          \* value returned by extract_plan_length
  planner,      \* the adapter being executed: "hsp" or "mcts"
  cmd,          \* the command line handed to subprocess.run
  clock,        \* time elapsed since start_time
  proc,         \* the external process of the current invocation
  spawned,      \* number of external processes started so far
  calls,        \* number of adapter invocations so far
  outcome,      \* the dictionary returned by the current invocation
  previous,     \* how the preceding invocation ended, as its caller saw it
  domains,      \* generate_plots: the domains still to plot
  plotted,      \* generate_plots: per plotted domain, the rows in x order
  args,         \* main: the parsed command line
  file          \* content written by save_results

vars == <<pc, pddl4j_path, timeout, results, output, ret, planner, cmd, clock,
          proc, spawned, calls, outcome, previous, domains, plotted, args,
          file>>

harnessVars == <<pddl4j_path, timeout, results>>

extractVars == <<output, ret>>

runVars == <<planner, cmd, clock, proc, spawned, calls, outcome, previous>>

plotVars == <<domains, plotted>>

mainVars == <<args, file>>

(***************************************************************************)
(* Bounds                                                                  *)
(***************************************************************************)
MaxLen == 4

MaxLines == 3

(***************************************************************************)
(* Tokens                                                                  *)
(***************************************************************************)
PL == "Plan length:"

SFW == "Solution found with "

ACT == " actions"

ITP == " in the plan"

ST == "Steps:"

SP == " "

NL == "\n"

LP == "("

RP == ")"

OC == "x"

Digits == {"0", "7"}

Tokens == {PL, SFW, ACT, ITP, ST, SP, NL, LP, RP, OC} \cup Digits

IsDigit(t) == t \in {"0", "1", "2", "3", "4", "5", "6", "7", "8", "9"}

IsSpace(t) == t \in {SP, NL}

DigitVal(t) ==
  CASE t = "0" -> 0 [] t = "1" -> 1 [] t = "2" -> 2 [] t = "3" -> 3
    [] t = "4" -> 4 [] t = "5" -> 5 [] t = "6" -> 6 [] t = "7" -> 7
    [] t = "8" -> 8 [] t = "9" -> 9

(* int(match.group(1)): the decimal value of a run of digits *)
RECURSIVE IntOf(_)
IntOf(ds) ==
  IF Len(ds) = 0 THEN 0
  ELSE 10 * IntOf(SubSeq(ds, 1, Len(ds) - 1)) + DigitVal(ds[Len(ds)])

(* str(n): the decimal digits of a natural number *)
DigitChar(d) ==
  CASE d = 0 -> "0" [] d = 1 -> "1" [] d = 2 -> "2" [] d = 3 -> "3"
    [] d = 4 -> "4" [] d = 5 -> "5" [] d = 6 -> "6" [] d = 7 -> "7"
    [] d = 8 -> "8" [] d = 9 -> "9"

RECURSIVE StrOf(_)
StrOf(n) ==
  IF n < 10 THEN <<DigitChar(n)>>
  ELSE Append(StrOf(n \div 10), DigitChar(n % 10))

(***************************************************************************)
(* re.search on a token sequence                                           *)
(***************************************************************************)
(* variant: the pattern without \s*, no whitespace is skipped *)
SkipSpaceNone(s, i) == i

(* \s* from position i: the first position that is not whitespace *)
RECURSIVE SkipSpace(_, _)
SkipSpace(s, i) ==
  IF i <= Len(s) /\ IsSpace(s[i]) THEN SkipSpace(s, i + 1) ELSE i

(* \d+ from position i (greedy): the last position of the run of digits *)
RECURSIVE DigitRunEnd(_, _)
DigitRunEnd(s, i) ==
  IF i + 1 <= Len(s) /\ IsDigit(s[i + 1]) THEN DigitRunEnd(s, i + 1) ELSE i

NoMatch == [found |-> FALSE, start |-> 0, group |-> <<>>]

Match(i, g) == [found |-> TRUE, start |-> i, group |-> g]

(* literal \s* (\d+)   -- patterns 'Plan length:\s*(\d+)', 'Steps:\s*(\d+)' *)
MatchLitSpaceNum(lit, s, i) ==
  IF s[i] # lit THEN NoMatch
  ELSE LET j == SkipSpace(s, i + 1)
       IN IF j <= Len(s) /\ IsDigit(s[j])
          THEN Match(i, SubSeq(s, j, DigitRunEnd(s, j)))
          ELSE NoMatch

(* 'Solution found with (\d+) actions' *)
MatchSolutionFound(s, i) ==
  IF s[i] # SFW THEN NoMatch
  ELSE IF i + 1 <= Len(s) /\ IsDigit(s[i + 1])
       THEN LET e == DigitRunEnd(s, i + 1)
            IN IF e + 1 <= Len(s) /\ s[e + 1] = ACT
               THEN Match(i, SubSeq(s, i + 1, e))
               ELSE NoMatch
       ELSE NoMatch

(* '(\d+) actions in the plan' *)
MatchActionsInPlan(s, i) ==
  IF ~IsDigit(s[i]) THEN NoMatch
  ELSE LET e == DigitRunEnd(s, i)
       IN IF e + 2 <= Len(s) /\ s[e + 1] = ACT /\ s[e + 2] = ITP
          THEN Match(i, SubSeq(s, i, e))
          ELSE NoMatch

(* len(patterns) *)
NumPatterns == 4

(* variant: the list 'patterns' with its first and last entries exchanged *)
MatchAtSwapped(p, s, i) ==
  CASE p = 1 -> MatchLitSpaceNum(ST, s, i)
    [] p = 2 -> MatchSolutionFound(s, i)
    [] p = 3 -> MatchActionsInPlan(s, i)
    [] p = 4 -> MatchLitSpaceNum(PL, s, i)

(* the list 'patterns', by index *)
MatchAt(p, s, i) ==
  CASE p = 1 -> MatchLitSpaceNum(PL, s, i)
    [] p = 2 -> MatchSolutionFound(s, i)
    [] p = 3 -> MatchActionsInPlan(s, i)
    [] p = 4 -> MatchLitSpaceNum(ST, s, i)

(* re.search(pattern, output): the leftmost match *)
RECURSIVE SearchFrom(_, _, _)
SearchFrom(p, s, i) ==
  IF i > Len(s) THEN NoMatch
  ELSE LET m == MatchAt(p, s, i)
       IN IF m.found THEN m ELSE SearchFrom(p, s, i + 1)

re_search(p, s) == SearchFrom(p, s, 1)

(***************************************************************************)
(* str.split('\n'), str.strip(), the action-line count                     *)
(***************************************************************************)
RECURSIVE Split(_)
Split(s) ==
  IF \A i \in 1..Len(s) : s[i] # NL THEN <<s>>
  ELSE LET k == CHOOSE i \in 1..Len(s) :
                   s[i] = NL /\ \A j \in 1..(i - 1) : s[j] # NL
       IN <<SubSeq(s, 1, k - 1)>> \o Split(SubSeq(s, k + 1, Len(s)))

RECURSIVE LStrip(_)
LStrip(l) == IF Len(l) > 0 /\ IsSpace(l[1]) THEN LStrip(Tail(l)) ELSE l

RECURSIVE RStrip(_)
RStrip(l) ==
  IF Len(l) > 0 /\ IsSpace(l[Len(l)]) THEN RStrip(SubSeq(l, 1, Len(l) - 1))
  ELSE l

Strip(l) == RStrip(LStrip(l))

(* variant: line.startswith('(') without strip() *)
IsActionLineNoStrip(l) ==
  /\ Len(l) > 0
  /\ l[1] = LP
  /\ \E i \in 1..Len(l) : l[i] = RP

(* line.strip().startswith('(') and ')' in line *)
IsActionLine(l) ==
  /\ Len(Strip(l)) > 0
  /\ Strip(l)[1] = LP
  /\ \E i \in 1..Len(l) : l[i] = RP

RECURSIVE CountActionLines(_)
CountActionLines(ls) ==
  IF Len(ls) = 0 THEN 0
  ELSE (IF IsActionLine(Head(ls)) THEN 1 ELSE 0) + CountActionLines(Tail(ls))

action_count(s) == CountActionLines(Split(s))

(***************************************************************************)
(* extract_plan_length                                                     *)
(***************************************************************************)
RECURSIVE ExtractFrom(_, _)
ExtractFrom(p, s) ==
  IF p > NumPatterns
  THEN (IF action_count(s) > 0 THEN action_count(s) ELSE -1)
  ELSE LET m == re_search(p, s)
       IN IF m.found THEN IntOf(m.group) ELSE ExtractFrom(p + 1, s)

extract_plan_length(s) == ExtractFrom(1, s)

(***************************************************************************)
(* Inputs of extract_plan_length                                           *)
(***************************************************************************)
SeqsUpTo(S, n) == UNION {[1..k -> S] : k \in 0..n}

RECURSIVE JoinLines(_)
JoinLines(ls) ==
  IF Len(ls) = 0 THEN <<>>
  ELSE IF Len(ls) = 1 THEN ls[1]
  ELSE ls[1] \o <<NL>> \o JoinLines(Tail(ls))

(* lines of planner output: action lines, plain or indented, and lines    *)
(* that are not action lines                                               *)
LineSamples ==
  { <<>>,
    <<LP, RP>>,
    <<SP, LP, OC, RP, SP>>,
    <<LP, OC>>,
    <<OC, LP, RP>>,
    <<RP, LP>> }

LineTexts == {JoinLines(ls) : ls \in SeqsUpTo(LineSamples, MaxLines)}

Outputs == SeqsUpTo(Tokens, MaxLen) \cup LineTexts

(***************************************************************************)
(* Specification of a call of extract_plan_length                          *)
(***************************************************************************)
NoProc ==
  [state |-> "none", stdout |-> <<>>, stderr |-> <<>>, returncode |-> 0,
   writes |-> 0]

NoOutcome ==
  [success |-> FALSE, runtime |-> 0, plan_length |-> 0,
   stdout |-> <<>>, stderr |-> <<>>]

NoArgs == [pddl4j_path |-> "", domains_path |-> <<>>, timeout |-> 0]

NoHarness == pddl4j_path = "" /\ timeout = 0 /\ results = <<>>

NoExtract == output = <<>> /\ ret = 0

NoRun ==
  /\ planner = "none" /\ cmd = <<>> /\ clock = 0 /\ proc = NoProc
  /\ spawned = 0 /\ calls = 0 /\ outcome = NoOutcome /\ previous = "none"

NoPlot == domains = <<>> /\ plotted = <<>>

NoMain == args = NoArgs /\ file = <<>>

InitExtract ==
  /\ pc = "call"
  /\ output \in Outputs
  /\ ret = 0
  /\ NoHarness /\ NoRun /\ NoPlot /\ NoMain

Extract ==
  /\ pc = "call"
  /\ ret' = extract_plan_length(output)
  /\ pc' = "return"
  /\ UNCHANGED <<output, harnessVars, runVars, plotVars, mainVars>>

NextExtract == Extract

SpecExtract == InitExtract /\ [][NextExtract]_vars

(***************************************************************************)
(* Properties of extract_plan_length, stated on positions of the text      *)
(***************************************************************************)
(* positions a..b hold digits and the digit run ends at b *)
DigitsAt(s, a, b) ==
  /\ \A k \in a..b : IsDigit(s[k])
  /\ (b = Len(s) \/ ~IsDigit(s[b + 1]))

Pos(s) == 1..Len(s)

(* pattern p occurs at position i with its group at positions a..b *)
Occurs(p, s, i, a, b) ==
  /\ CASE p = 1 -> s[i] = PL /\ i < a /\ \A k \in (i + 1)..(a - 1) : IsSpace(s[k])
       [] p = 2 -> s[i] = SFW /\ a = i + 1
       [] p = 3 -> a = i
       [] p = 4 -> s[i] = ST /\ i < a /\ \A k \in (i + 1)..(a - 1) : IsSpace(s[k])
  /\ DigitsAt(s, a, b)
  /\ CASE p = 2 -> b + 1 <= Len(s) /\ s[b + 1] = ACT
       [] p = 3 -> b + 2 <= Len(s) /\ s[b + 1] = ACT /\ s[b + 2] = ITP
       [] OTHER -> TRUE

(* pattern p occurs at position i *)
OccursAt(p, s, i) ==
  \E a \in i..Len(s) : \E b \in a..Len(s) : Occurs(p, s, i, a, b)

Matches(p, s) == \E i \in Pos(s) : OccursAt(p, s, i)

NoPatternMatches(s) == \A p \in 1..NumPatterns : ~Matches(p, s)

(* position of the leftmost occurrence of pattern p *)
FirstPos(p, s) ==
  CHOOSE i \in Pos(s) :
    OccursAt(p, s, i) /\ \A i2 \in 1..(i - 1) : ~OccursAt(p, s, i2)

(* the numbers pattern p captures at its leftmost occurrence *)
Captured(p, s) ==
  LET i == FirstPos(p, s)
  IN {IntOf(SubSeq(s, ab[1], ab[2])) : ab \in
        {ab \in (i..Len(s)) \X (i..Len(s)) :
           ab[1] <= ab[2] /\ Occurs(p, s, i, ab[1], ab[2])}}

EarliestPattern(s) ==
  CHOOSE p \in 1..NumPatterns :
    Matches(p, s) /\ \A q \in 1..(p - 1) : ~Matches(q, s)

(* positions of a "(" that is the first non-blank token of its line and is *)
(* followed by a ")" on the same line                                      *)
SameLine(s, i, j) == \A m \in i..j : s[m] # NL

ActionLineStarts(s) ==
  {i \in Pos(s) :
     /\ s[i] = LP
     /\ \A k \in 1..(i - 1) : SameLine(s, k, i) => s[k] = SP
     /\ \E j \in (i + 1)..Len(s) : s[j] = RP /\ SameLine(s, i, j)}

(* C4: when at least one of the four patterns matches the text, the result *)
(* is the number captured by the earliest pattern of the list that         *)
(* matches, wherever later patterns match and whatever the action-line     *)
(* count is.                                                               *)
C4_FirstPatternWins ==
  (pc = "return" /\ ~NoPatternMatches(output)) =>
     Captured(EarliestPattern(output), output) = {ret}

(* a later pattern matches further left than the earliest pattern *)
C4_Witness ==
  /\ pc = "return"
  /\ Matches(1, output) /\ Matches(4, output)
  /\ FirstPos(4, output) < FirstPos(1, output)
  /\ Captured(4, output) # Captured(1, output)
  /\ Captured(1, output) = {ret}

(* the text contains the tokens of t, contiguously, from position i *)
HasAt(s, t, i) ==
  /\ i + Len(t) - 1 <= Len(s)
  /\ \A k \in 1..Len(t) : s[i + k - 1] = t[k]

Contains(s, t) == \E i \in Pos(s) : HasAt(s, t, i)

PlanLength7 == <<PL, SP, "7">>

(* C5 as stated: any text containing "Plan length: 7" yields 7 *)
C5_Original ==
  (pc = "return" /\ Contains(output, PlanLength7)) => ret = 7

(* C5 amended: a text containing "Plan length: 7" yields 7 when that 7 is  *)
(* not followed by a further digit and no earlier "Plan length:" is        *)
(* followed (after optional whitespace) by a digit; the rest of the text   *)
(* is arbitrary.                                                           *)
C5_Amended ==
  (/\ pc = "return"
   /\ \E i \in Pos(output) :
        /\ HasAt(output, PlanLength7, i)
        /\ (i + 3 > Len(output) \/ ~IsDigit(output[i + 3]))
        /\ \A i2 \in 1..(i - 1) :
             ~OccursAt(1, output, i2))
  => ret = 7

(* "Plan length: 7" after other content, other patterns matching too *)
C5_Witness ==
  /\ pc = "return"
  /\ Len(output) = MaxLen
  /\ output[1] = ST
  /\ HasAt(output, PlanLength7, 2)
  /\ ret = 7

(* C6: when none of the four patterns matches, the result is the number of *)
(* lines that begin, after trimming whitespace, with "(" and contain ")",  *)
(* if that number is positive, and -1 otherwise; it is never 0.            *)
C6_Fallback ==
  (pc = "return" /\ NoPatternMatches(output)) =>
     /\ ret = (IF ActionLineStarts(output) # {}
               THEN Cardinality(ActionLineStarts(output)) ELSE -1)
     /\ ret # 0

(* exactly three action lines, one of them indented: the result is 3 *)
C6_Witness ==
  /\ pc = "return"
  /\ NoPatternMatches(output)
  /\ Cardinality(ActionLineStarts(output)) = 3
  /\ ret = 3

(***************************************************************************)
(* The planner adapters: run_hsp_planner and run_mcts_planner              *)
(***************************************************************************)
MaxTimeout == 2

MaxWrites == 2

MaxCalls == 2

DefaultWalks == 1000

DefaultLength == 100

JarPaths == {"pddl4j.jar"}

DomainFiles == {"domain.pddl"}

ProblemFiles == {"p01.pddl", "p02.pddl"}

(* what the external planner writes to its standard output in one write *)
OutChunks ==
  { <<ST, SP, "5">>,
    <<"0">>,
    <<PL, SP, "0", NL>>,
    <<LP, OC, RP, NL>>,
    <<OC, NL>> }

ErrChunks == { <<OC>> }

ExitCodes == {0, 1}

(* cmd of run_hsp_planner *)
HspCmd(path, domain_file, problem_file, t) ==
  << "java", "-cp", <<path>>,
     "fr.uga.pddl4j.planners.statespace.HSP",
     "-d", domain_file,
     "-p", problem_file,
     "-t", StrOf(t) >>

(* cmd of run_mcts_planner *)
MctsCmd(path, domain_file, problem_file, t, walks, length) ==
  << "java", "-cp", <<path, ":target/classes">>,
     "fr.uga.pddl4j.planners.mcts.MCTSPlanner",
     "-d", domain_file,
     "-p", problem_file,
     "-t", StrOf(t),
     "-w", StrOf(walks),
     "-l", StrOf(length) >>

(* the CompletedProcess returned by subprocess.run *)
Completed(p) ==
  [returncode |-> p.returncode, stdout |-> p.stdout, stderr |-> p.stderr]

(* variant: success does not look at plan_length *)
HspCompletedExitOnly(result, runtime) ==
  LET plan_length == extract_plan_length(result.stdout)
      success == result.returncode = 0
  IN [success |-> success,
      runtime |-> runtime,
      plan_length |-> plan_length,
      stdout |-> result.stdout,
      stderr |-> result.stderr]

(* run_hsp_planner, the try block after subprocess.run returned *)
HspCompleted(result, runtime) ==
  LET plan_length == extract_plan_length(result.stdout)
      success == result.returncode = 0 /\ plan_length > 0
  IN [success |-> success,
      runtime |-> runtime,
      plan_length |-> plan_length,
      stdout |-> result.stdout,
      stderr |-> result.stderr]

(* variant: the timeout outcome reports plan_length 0 *)
HspTimedOutZero(t) ==
  [success |-> FALSE,
   runtime |-> t,
   plan_length |-> 0,
   stdout |-> <<>>,
   stderr |-> <<"Timeout">>]

(* run_hsp_planner, except subprocess.TimeoutExpired *)
HspTimedOut(t) ==
  [success |-> FALSE,
   runtime |-> t,
   plan_length |-> -1,
   stdout |-> <<>>,
   stderr |-> <<"Timeout">>]

(* variant: success does not look at the exit status *)
MctsCompletedLengthOnly(result, runtime) ==
  LET plan_length == extract_plan_length(result.stdout)
      success == plan_length > 0
  IN [success |-> success,
      runtime |-> runtime,
      plan_length |-> plan_length,
      stdout |-> result.stdout,
      stderr |-> result.stderr]

(* run_mcts_planner, the try block after subprocess.run returned *)
MctsCompleted(result, runtime) ==
  LET plan_length == extract_plan_length(result.stdout)
      success == result.returncode = 0 /\ plan_length > 0
  IN [success |-> success,
      runtime |-> runtime,
      plan_length |-> plan_length,
      stdout |-> result.stdout,
      stderr |-> result.stderr]

(* run_mcts_planner, except subprocess.TimeoutExpired *)
MctsTimedOut(t) ==
  [success |-> FALSE,
   runtime |-> t,
   plan_length |-> -1,
   stdout |-> <<>>,
   stderr |-> <<"Timeout">>]

(* subprocess.run starts the child process; start_time is taken *)
Spawn ==
  /\ proc' = [NoProc EXCEPT !.state = "running"]
  /\ spawned' = spawned + 1
  /\ clock' = 0

(* how the invocation that has just returned ended *)
Ended ==
  IF pc # "returned" THEN "none"
  ELSE IF outcome.success THEN "success"
  ELSE IF proc.state = "killed" THEN "timeout"
  ELSE "failure"

(* PlannerBenchmark(pddl4j_path, timeout) *)
InitRun ==
  /\ pc = "idle"
  /\ pddl4j_path \in JarPaths
  /\ timeout \in 1..MaxTimeout
  /\ results = <<>>
  /\ NoRun /\ NoExtract /\ NoPlot /\ NoMain

(* run_hsp_planner is called: cmd is built, the process is started *)
RunHspPlanner ==
  /\ pc \in {"idle", "returned"}
  /\ calls < MaxCalls
  /\ \E d \in DomainFiles, p \in ProblemFiles :
       cmd' = HspCmd(pddl4j_path, d, p, timeout)
  /\ planner' = "hsp"
  /\ calls' = calls + 1
  /\ Spawn
  /\ previous' = Ended
  /\ outcome' = NoOutcome
  /\ pc' = "running"
  /\ UNCHANGED <<harnessVars, extractVars, plotVars, mainVars>>

(* run_mcts_planner is called: cmd is built, the process is started *)
RunMctsPlanner ==
  /\ pc \in {"idle", "returned"}
  /\ calls < MaxCalls
  /\ \E d \in DomainFiles, p \in ProblemFiles :
       cmd' = MctsCmd(pddl4j_path, d, p, timeout, DefaultWalks, DefaultLength)
  /\ planner' = "mcts"
  /\ calls' = calls + 1
  /\ Spawn
  /\ previous' = Ended
  /\ outcome' = NoOutcome
  /\ pc' = "running"
  /\ UNCHANGED <<harnessVars, extractVars, plotVars, mainVars>>

(* the external process writes to its standard output *)
ProcessWrites ==
  /\ pc = "running" /\ proc.state = "running"
  /\ proc.writes < MaxWrites
  /\ \E c \in OutChunks :
       proc' = [proc EXCEPT !.stdout = @ \o c, !.writes = @ + 1]
  /\ UNCHANGED <<pc, planner, cmd, clock, spawned, calls, outcome, previous,
                 harnessVars, extractVars, plotVars, mainVars>>

(* the external process writes to its standard error *)
ProcessWritesErr ==
  /\ pc = "running" /\ proc.state = "running"
  /\ proc.stderr = <<>>
  /\ \E c \in ErrChunks : proc' = [proc EXCEPT !.stderr = @ \o c]
  /\ UNCHANGED <<pc, planner, cmd, clock, spawned, calls, outcome, previous,
                 harnessVars, extractVars, plotVars, mainVars>>

(* the external process exits by itself, before the timeout has elapsed *)
ProcessExits ==
  /\ pc = "running" /\ proc.state = "running"
  /\ clock < timeout
  /\ \E rc \in ExitCodes :
       proc' = [proc EXCEPT !.state = "exited", !.returncode = rc]
  /\ UNCHANGED <<pc, planner, cmd, clock, spawned, calls, outcome, previous,
                 harnessVars, extractVars, plotVars, mainVars>>

(* time passes while subprocess.run waits for the process *)
Tick ==
  /\ pc = "running" /\ proc.state = "running"
  /\ clock < timeout
  /\ clock' = clock + 1
  /\ UNCHANGED <<pc, planner, cmd, proc, spawned, calls, outcome, previous,
                 harnessVars, extractVars, plotVars, mainVars>>

(* run_hsp_planner: subprocess.run returns, the outcome is built *)
HspReturn ==
  /\ pc = "running" /\ planner = "hsp"
  /\ proc.state = "exited"
  /\ outcome' = HspCompleted(Completed(proc), clock)
  /\ pc' = "returned"
  /\ UNCHANGED <<planner, cmd, clock, proc, spawned, calls, previous,
                 harnessVars, extractVars, plotVars, mainVars>>

(* variant: on timeout the process is killed and the planner started again *)
HspTimeoutRetry ==
  /\ pc = "running" /\ planner = "hsp"
  /\ proc.state = "running"
  /\ clock = timeout
  /\ Spawn
  /\ UNCHANGED <<pc, planner, cmd, calls, outcome, previous,
                 harnessVars, extractVars, plotVars, mainVars>>

(* run_hsp_planner: the timeout elapses; subprocess.run kills the process, *)
(* waits for it and raises TimeoutExpired, which the handler turns into an *)
(* outcome                                                                 *)
HspTimeout ==
  /\ pc = "running" /\ planner = "hsp"
  /\ proc.state = "running"
  /\ clock = timeout
  /\ proc' = [proc EXCEPT !.state = "killed"]
  /\ outcome' = HspTimedOut(timeout)
  /\ pc' = "returned"
  /\ UNCHANGED <<planner, cmd, clock, spawned, calls, previous,
                 harnessVars, extractVars, plotVars, mainVars>>

(* run_mcts_planner: subprocess.run returns, the outcome is built *)
MctsReturn ==
  /\ pc = "running" /\ planner = "mcts"
  /\ proc.state = "exited"
  /\ outcome' = MctsCompleted(Completed(proc), clock)
  /\ pc' = "returned"
  /\ UNCHANGED <<planner, cmd, clock, proc, spawned, calls, previous,
                 harnessVars, extractVars, plotVars, mainVars>>

(* variant: on timeout the handler returns and leaves the process running *)
MctsTimeoutNoKill ==
  /\ pc = "running" /\ planner = "mcts"
  /\ proc.state = "running"
  /\ clock = timeout
  /\ outcome' = MctsTimedOut(timeout)
  /\ pc' = "returned"
  /\ UNCHANGED <<planner, cmd, clock, proc, spawned, calls, previous,
                 harnessVars, extractVars, plotVars, mainVars>>

(* run_mcts_planner: the timeout elapses (as in run_hsp_planner) *)
MctsTimeout ==
  /\ pc = "running" /\ planner = "mcts"
  /\ proc.state = "running"
  /\ clock = timeout
  /\ proc' = [proc EXCEPT !.state = "killed"]
  /\ outcome' = MctsTimedOut(timeout)
  /\ pc' = "returned"
  /\ UNCHANGED <<planner, cmd, clock, spawned, calls, previous,
                 harnessVars, extractVars, plotVars, mainVars>>

NextRun ==
  \/ RunHspPlanner
  \/ RunMctsPlanner
  \/ ProcessWrites
  \/ ProcessWritesErr
  \/ ProcessExits
  \/ Tick
  \/ HspReturn
  \/ HspTimeout
  \/ MctsReturn
  \/ MctsTimeout

SpecRun == InitRun /\ [][NextRun]_vars

(***************************************************************************)
(* generate_plots                                                          *)
(***************************************************************************)
MaxRecords == 3

Domains == {"blocksworld", "logistics"}

Problems == {"p01", "p02"}

Runtimes == {1, 3, 5}

(* the rows of self.results that generate_plots reads; the columns it does *)
(* not order by are held fixed                                             *)
Records ==
  [domain : Domains, problem : Problems, hsp_runtime : Runtimes,
   mcts_runtime : {1}, hsp_plan_length : {3}, mcts_plan_length : {-1}]

(* df['domain'].unique(): the domains in order of first appearance *)
RECURSIVE Unique(_)
Unique(rs) ==
  IF Len(rs) = 0 THEN <<>>
  ELSE LET u == Unique(SubSeq(rs, 1, Len(rs) - 1))
           d == rs[Len(rs)].domain
       IN IF \E i \in 1..Len(u) : u[i] = d THEN u ELSE Append(u, d)

(* df[df['domain'] == domain]: the row numbers of the domain, in order *)
RECURSIVE DomainRows(_, _, _)
DomainRows(rs, d, i) ==
  IF i > Len(rs) THEN <<>>
  ELSE (IF rs[i].domain = d THEN <<i>> ELSE <<>>) \o DomainRows(rs, d, i + 1)

Orders(rows) ==
  {o \in [1..Len(rows) -> 1..Len(rows)] :
     \A i, j \in 1..Len(rows) : i # j => o[i] # o[j]}

(* variant: the rows are left in the order of self.results *)
SortValuesNone(rs, rows) == {rows}

(* domain_df.sort_values('hsp_runtime'): ascending, with the default       *)
(* kind='quicksort', which does not fix the order of rows with equal keys: *)
(* every ascending arrangement of the rows is a possible result            *)
SortValues(rs, rows) ==
  {[k \in 1..Len(rows) |-> rows[o[k]]] : o \in
     {o \in Orders(rows) :
        \A k \in 1..(Len(rows) - 1) :
          rs[rows[o[k]]].hsp_runtime <= rs[rows[o[k + 1]]].hsp_runtime}}

(* generate_plots is called on a harness holding some results *)
InitPlots ==
  /\ pc = "generate_plots"
  /\ pddl4j_path \in JarPaths
  /\ timeout = MaxTimeout
  /\ results \in SeqsUpTo(Records, MaxRecords)
  /\ NoPlot /\ NoRun /\ NoExtract /\ NoMain

(* generate_plots up to the loop over the domains *)
GeneratePlots ==
  /\ pc = "generate_plots"
  /\ IF results = <<>>
     THEN pc' = "plots_returned" /\ UNCHANGED domains
     ELSE pc' = "plot_domain" /\ domains' = Unique(results)
  /\ plotted' = <<>>
  /\ UNCHANGED <<harnessVars, extractVars, runVars, mainVars>>

(* one iteration of 'for domain in domains' *)
PlotDomain ==
  /\ pc = "plot_domain"
  /\ LET domain == Head(domains)
     IN \E domain_df \in SortValues(results, DomainRows(results, domain, 1)) :
          plotted' = Append(plotted, [domain |-> domain, rows |-> domain_df])
  /\ domains' = Tail(domains)
  /\ pc' = IF Tail(domains) = <<>> THEN "plots_returned" ELSE "plot_domain"
  /\ UNCHANGED <<harnessVars, extractVars, runVars, mainVars>>

NextPlots == GeneratePlots \/ PlotDomain

SpecPlots == InitPlots /\ [][NextPlots]_vars

(***************************************************************************)
(* main                                                                    *)
(***************************************************************************)
MaxProblems == 2

(* a problem instance found under --domains-path *)
ProblemInstances == [domain : Domains, problem : Problems]

(* the command line; domains_path stands for the problem instances that    *)
(* the directory it names holds                                            *)
InitMain ==
  /\ pc = "main"
  /\ args \in [pddl4j_path : JarPaths,
               domains_path : SeqsUpTo(ProblemInstances, MaxProblems),
               timeout : 1..MaxTimeout]
  /\ file = <<>>
  /\ NoHarness /\ NoRun /\ NoExtract /\ NoPlot

(* PlannerBenchmark.__init__, called by main with the parsed arguments *)
Construct ==
  /\ pc = "main"
  /\ pddl4j_path' = args.pddl4j_path
  /\ timeout' = args.timeout
  /\ results' = <<>>
  /\ pc' = "save_results"
  /\ UNCHANGED <<extractVars, runVars, plotVars, mainVars>>

(* save_results: json.dump(self.results) into benchmark_results.json *)
SaveResults ==
  /\ pc = "save_results"
  /\ file' = <<[name |-> "benchmark_results.json", records |-> results]>>
  /\ pc' = "generate_plots"
  /\ UNCHANGED <<args, harnessVars, extractVars, runVars, plotVars>>

(* print("Benchmark completed!") *)
BenchmarkCompleted ==
  /\ pc = "plots_returned"
  /\ pc' = "done"
  /\ UNCHANGED <<harnessVars, extractVars, runVars, plotVars, mainVars>>

(* main never fills self.results, so generate_plots takes its early return *)
NextMain == Construct \/ SaveResults \/ GeneratePlots \/ BenchmarkCompleted

SpecMain == InitMain /\ [][NextMain]_vars

(***************************************************************************)
(* Properties of the adapters                                              *)
(***************************************************************************)
TimeoutOutcome ==
  [success |-> FALSE, runtime |-> timeout, plan_length |-> -1,
   stdout |-> <<>>, stderr |-> <<"Timeout">>]

(* C1: when an invocation ends while its process has not exited (the       *)
(* timeout elapsed), it returns, without raising, the outcome success =    *)
(* false, runtime = the configured timeout, plan_length = -1, stderr =     *)
(* "Timeout", stdout = "", whatever the process had printed.               *)
C1_TimeoutOutcome ==
  [][(pc = "running" /\ proc.state = "running" /\ pc' # "running") =>
       (pc' = "returned" /\ outcome' = TimeoutOutcome)]_vars

(* a timed-out invocation of a process that had printed something *)
C1_Witness ==
  /\ pc = "returned"
  /\ proc.state = "killed"
  /\ proc.stdout # <<>> /\ proc.stderr # <<>>
  /\ clock = timeout
  /\ outcome = TimeoutOutcome

(* the outcome of an invocation whose process exited before the timeout *)
NormalExitContract ==
  /\ outcome.plan_length = extract_plan_length(proc.stdout)
  /\ outcome.stdout = proc.stdout
  /\ outcome.stderr = proc.stderr
  /\ outcome.success <=> (proc.returncode = 0 /\ outcome.plan_length > 0)

Steps5 == <<ST, SP, "5">>

(* C2 as stated: on normal exit the outcome follows the contract, and exit *)
(* status 0 with output containing "Steps: 5" yields success and length 5. *)
C2_Original ==
  (pc = "returned" /\ proc.state = "exited") =>
     /\ NormalExitContract
     /\ (proc.returncode = 0 /\ Contains(proc.stdout, Steps5)) =>
           (outcome.success /\ outcome.plan_length = 5)

(* C2 amended: on normal exit plan_length = extract_plan_length(stdout),   *)
(* stdout and stderr are the captured text, success holds exactly when the *)
(* exit status is 0 and plan_length > 0; exit status 0 with an output in   *)
(* which none of the three earlier patterns matches and whose first        *)
(* "Steps:" match is "Steps: 5" with no further digit yields success and   *)
(* plan_length 5.                                                          *)
C2_Amended ==
  (pc = "returned" /\ proc.state = "exited") =>
     /\ NormalExitContract
     /\ (/\ proc.returncode = 0
         /\ \A p \in 1..3 : ~Matches(p, proc.stdout)
         /\ Matches(4, proc.stdout)
         /\ HasAt(proc.stdout, Steps5, FirstPos(4, proc.stdout))
         /\ Captured(4, proc.stdout) = {5}) =>
           (outcome.success /\ outcome.plan_length = 5)

(* exit status 0, "Steps: 5" printed after an action line *)
C2_Witness ==
  /\ pc = "returned"
  /\ proc.state = "exited"
  /\ proc.returncode = 0
  /\ proc.stdout = <<LP, OC, RP, NL>> \o Steps5
  /\ outcome.success
  /\ outcome.plan_length = 5

(* C3: once an invocation has returned, the process it spawned is not      *)
(* running any more: it exited by itself or was killed on timeout.         *)
C3_ProcessGone ==
  pc = "returned" => proc.state \in {"exited", "killed"}

(* a returned invocation whose process was terminated on timeout *)
C3_Witness ==
  /\ pc = "returned"
  /\ outcome.stderr = <<"Timeout">>
  /\ proc.state = "killed"
  /\ calls = spawned

(* C7: every invocation spawns exactly one process and none is started     *)
(* again; a timed-out or failed invocation is returned as an outcome,      *)
(* leaves the harness unchanged and leaves the next invocation possible.   *)
C7_NoRetry ==
  /\ [](spawned = calls)
  /\ []((pc = "returned" /\ ~outcome.success /\ calls < MaxCalls) =>
          (ENABLED RunHspPlanner /\ ENABLED RunMctsPlanner))
  /\ [][(pc = "running" /\ pc' = "running") => spawned' = spawned]_vars
  /\ [][(pc = "running" /\ pc' # "running") =>
          (pc' = "returned" /\ UNCHANGED <<harnessVars, spawned, calls>>)]_vars

(* a second invocation under way after a timed-out first one *)
C7_Witness ==
  /\ pc = "running"
  /\ calls = 2 /\ spawned = 2
  /\ previous = "timeout"
  /\ proc.state = "running"

(* C10: both adapters interpret a process run in the same way: the outcome *)
(* an invocation returns is the one either adapter builds from the same    *)
(* exit status, stdout, stderr and elapsed time, or from the same timeout. *)
C10_SameInterpretation ==
  pc = "returned" =>
    IF proc.state = "exited"
    THEN /\ outcome = HspCompleted(Completed(proc), clock)
         /\ outcome = MctsCompleted(Completed(proc), clock)
    ELSE /\ outcome = HspTimedOut(timeout)
         /\ outcome = MctsTimedOut(timeout)

(* an MCTS invocation that found a plan, with its own command line *)
C10_Witness ==
  /\ pc = "returned"
  /\ planner = "mcts"
  /\ proc.state = "exited"
  /\ outcome.success
  /\ outcome = HspCompleted(Completed(proc), clock)
  /\ \A d \in DomainFiles, p \in ProblemFiles :
       cmd # HspCmd(pddl4j_path, d, p, timeout)

(***************************************************************************)
(* Properties of generate_plots and main                                   *)
(***************************************************************************)
Ascending(rows) ==
  \A k \in 1..(Len(rows) - 1) :
    results[rows[k]].hsp_runtime <= results[rows[k + 1]].hsp_runtime

(* rows with equal HSP runtime keep the order they have in self.results *)
TiesKeepOrder(rows) ==
  \A k \in 1..(Len(rows) - 1) :
    results[rows[k]].hsp_runtime = results[rows[k + 1]].hsp_runtime =>
      rows[k] < rows[k + 1]

IsDomainRows(d, rows) ==
  /\ \A k \in 1..Len(rows) : rows[k] \in 1..Len(results)
                             /\ results[rows[k]].domain = d
  /\ \A i \in 1..Len(results) :
       results[i].domain = d => \E k \in 1..Len(rows) : rows[k] = i
  /\ \A k, m \in 1..Len(rows) : k # m => rows[k] # rows[m]

(* C9 as stated: each domain is plotted in ascending order of HSP runtime  *)
(* and rows with equal HSP runtime keep their relative order.              *)
C9_Original ==
  \A n \in 1..Len(plotted) :
    /\ IsDomainRows(plotted[n].domain, plotted[n].rows)
    /\ Ascending(plotted[n].rows)
    /\ TiesKeepOrder(plotted[n].rows)

(* C9 amended: each domain is plotted with exactly its own records, in     *)
(* ascending order of HSP runtime; the relative order of records with      *)
(* equal HSP runtime is not determined.                                    *)
C9_Amended ==
  \A n \in 1..Len(plotted) :
    /\ IsDomainRows(plotted[n].domain, plotted[n].rows)
    /\ Ascending(plotted[n].rows)

(* HSP runtimes 5, 1, 3 of one domain are plotted as 1, 3, 5 *)
C9_Witness ==
  /\ pc = "plots_returned"
  /\ Len(results) = 3
  /\ \A i \in 1..3 : results[i].domain = "blocksworld"
  /\ results[1].hsp_runtime = 5
  /\ results[2].hsp_runtime = 1
  /\ results[3].hsp_runtime = 3
  /\ Len(plotted) = 1
  /\ plotted[1].rows = <<2, 3, 1>>

(* C8: the result set is empty at creation and, when main has finished,    *)
(* holds one record per benchmarked problem instance, in order, for the    *)
(* same domain and problem.                                                *)
C8_OneRecordPerProblem ==
  /\ pc = "save_results" => results = <<>>
  /\ pc = "done" =>
       /\ Len(results) = Len(args.domains_path)
       /\ \A i \in 1..Len(results) :
            /\ results[i].domain = args.domains_path[i].domain
            /\ results[i].problem = args.domains_path[i].problem

====
